---- MODULE Spec2Model ----
(***************************************************************************)
(* Discrete-event simulation of patients flowing through the stages of an  *)
(* emergency department (SimpySimulation / HospitalProcess).               *)
(*                                                                         *)
(* The program is a set of SimPy generator processes.  The model keeps the *)
(* SimPy environment explicitly: the event heap ordered by (time,          *)
(* priority, insertion order), each Resource's users list and put queue,   *)
(* and the position of every generator.  One action is one env.step():     *)
(* the event at the head of the heap is popped, the clock is set to its    *)
(* time, and its callbacks run, each resumed generator running up to its   *)
(* next yield.  Virtual time is integer valued; the random draws           *)
(* (lognormvariate, np.random.uniform) are nondeterministic choices.       *)
(***************************************************************************)
EXTENDS Integers, Sequences, FiniteSets, TLC

(***************************************************************************)
(* Bounds of the model.                                                    *)
(***************************************************************************)
\* number of patients the arrival loop spawns before a gap carries the next
\* arrival past the horizon
MaxPatients == 3
\* inter-arrival gaps are drawn from 1..MaxGap (lognormvariate, simpy_simulation.py:77)
MaxGap == 2
\* the horizon `until` of SimpySimulation.__init__ (360*24*60 by default), scaled
simulation_time == 8
\* the delay of env.timeout(10000) in request_resource_and_monitor_time, scaled
TimeoutDelay == 3

(***************************************************************************)
(* Configuration: main.py's resource_dict and process_list, cut down to    *)
(* two stages, the second one needing two resources.  SimpySimulation      *)
(* keeps what it is constructed with in self.resource_dict and             *)
(* self.process_list.                                                      *)
(***************************************************************************)
VARIABLES
  resource_dict,    \* SimpySimulation.resource_dict
  process_list,     \* SimpySimulation.process_list
  opt_problem,      \* main(): the LinearOptimisationProblem object
  optimised_sim     \* main(): the resource_dict of the second SimpySimulation

\* what SimpySimulation.__init__ stores and main()'s optimiser objects:
\* nothing inside begin() assigns them
main_state == <<resource_dict, process_list, opt_problem, optimised_sim>>

\* a name that is not bound yet, an attribute that is not set yet
None == [unset |-> TRUE]

main_resource_dict == [Stretcher |-> 1, Doctor |-> 1, ParaStaff |-> 2]

main_process_list ==
  << [name |-> "Stretcher Allocation", resource_names |-> <<"Stretcher">>,
      time_range |-> <<1, 4>>],
     [name |-> "Patient Doc Check", resource_names |-> <<"Doctor", "ParaStaff">>,
      time_range |-> <<1, 3>>] >>

Resources == DOMAIN resource_dict
Stages == 1..Len(process_list)
Patients == 0..(MaxPatients - 1)
StageIds == Patients \X Stages
\* one request per (patient, stage, index in resource_names): request_store[i]
ReqIds == {r \in Patients \X Stages \X (1..2) :
             r[3] <= Len(process_list[r[2]].resource_names)}

ResOf(r) == process_list[r[2]].resource_names[r[3]]

\* float('inf'), the wait recorded for a request that lost its race
INF == -1
\* a time that has not been set (None)
NoTime == 0 - 1

URGENT == "urgent"
NORMAL == "normal"

(***************************************************************************)
(* The event heap.  Environment.schedule pushes (now + delay, priority,    *)
(* eid, event) with eid a running counter, so the heap pops in (time,      *)
(* priority, insertion) order.  The queue is kept as the sorted sequence;  *)
(* a new event goes behind every event that has to pop before it.          *)
(***************************************************************************)
Ev(kind, p, s, i) == [kind |-> kind, p |-> p, s |-> s, i |-> i]
EvReq(kind, r) == Ev(kind, r[1], r[2], r[3])

PopsBeforeLifo(e, t, prio) ==
  e.time < t

PopsBefore(e, t, prio) ==
  \/ e.time < t
  \/ e.time = t /\ (e.prio = URGENT \/ prio = NORMAL)

Schedule(q, t, prio, ev) ==
  LET n == Cardinality({k \in 1..Len(q) : PopsBefore(q[k], t, prio)})
  IN SubSeq(q, 1, n) \o <<[time |-> t, prio |-> prio, ev |-> ev]>>
       \o SubSeq(q, n + 1, Len(q))

\* list.remove(x): drops the first occurrence, ValueError (swallowed) if absent
RECURSIVE Remove(_, _)
Remove(seq, x) ==
  IF seq = <<>> THEN <<>>
  ELSE IF Head(seq) = x THEN Tail(seq)
  ELSE <<Head(seq)>> \o Remove(Tail(seq), x)

InSeq(seq, x) == \E k \in 1..Len(seq) : seq[k] = x

(***************************************************************************)
(* State.                                                                  *)
(***************************************************************************)
VARIABLES
  phase,            \* "constructed", "running" (inside env.run), "stopped"
  now,              \* env.now
  queue,            \* env._queue
  patient_id,       \* local of patient_arrivals
  users,            \* Resource.users of each resource
  put_queue,        \* Resource.put_queue of each resource
  req,              \* each Request event: state and usage_since
  race,             \* each monitor process: start_time and its any-of condition
  stage,            \* each HospitalProcess: position of run(), all_of, waits
  patient_log_data, \* SimpySimulation.patient_log_data
  hist              \* history of each request and stage (not program state)

vars == <<resource_dict, process_list, opt_problem, optimised_sim, phase, now, queue, patient_id, users, put_queue, req, race, stage,
          patient_log_data, hist>>

\* the empty dict {}
EmptyDict == [x \in {} |-> 0]

\* SimpySimulation.__init__(resource_dict, process_list, ...)
Construct(rd, pl) ==
  /\ resource_dict = rd
  /\ process_list = pl
  /\ phase = "constructed"
  /\ now = 0
  /\ queue = <<>>
  /\ patient_id = 0
  /\ users = [res \in Resources |-> <<>>]
  /\ put_queue = [res \in Resources |-> <<>>]
  /\ req = [r \in ReqIds |-> [state |-> "none", usage_since |-> NoTime]]
  /\ race = [r \in ReqIds |-> [start_time |-> NoTime, cond |-> "none"]]
  /\ stage = [x \in StageIds |->
                [pc |-> "none", all_of |-> "none", count |-> 0,
                 service_time |-> NoTime, resource_wait_times |-> EmptyDict]]
  /\ patient_log_data = <<>>
  /\ hist = [issued |-> [r \in ReqIds |-> NoTime],
             seq |-> [r \in ReqIds |-> 0],
             nissued |-> 0,
             held_at_issue |-> [r \in ReqIds |-> 0],
             queued_at_issue |-> [r \in ReqIds |-> 0],
             resolved_at |-> [r \in ReqIds |-> NoTime],
             waited |-> [r \in ReqIds |-> FALSE],
             released |-> [r \in ReqIds |-> FALSE],
             released_at |-> [res \in Resources |-> NoTime],
             spawns |-> <<>>,
             arrival |-> [p \in Patients |-> NoTime],
             completed |-> [p \in Patients |-> NoTime],
             service_start |-> [x \in StageIds |-> NoTime],
             service_end |-> [x \in StageIds |-> NoTime]]

\* main.py:37, before the optimiser exists
Init ==
  /\ Construct(main_resource_dict, main_process_list)
  /\ opt_problem = None
  /\ optimised_sim = None


(***************************************************************************)
(* Resources.  simpy.Resource(env, capacity): request() appends the        *)
(* Request to put_queue and runs _trigger_put, which looks at the HEAD of  *)
(* put_queue only (_do_put returns None, so the loop stops after one       *)
(* event): if len(users) < capacity the head joins users, gets             *)
(* usage_since = now and is scheduled (succeed), and leaves the queue.     *)
(* release(request) removes the request from users if it is there and      *)
(* schedules the Release event; _trigger_put runs as that event's callback *)
(* when it is popped, not inside release().                                *)
(***************************************************************************)
\* setup_resource_environment: capacity=resource_dict[res]
CapacityPlusOne(res) == resource_dict[res] + 1
Capacity(res) == resource_dict[res]

\* Resource._do_put's test
DoPut(nusers, capacity) == nusers < capacity

\* Put.__init__: resource.put_queue.append(self)
PutQueueInsertFront(q, r) == <<r>> \o q
PutQueueInsert(q, r) == Append(q, r)

\* The resource-side state an operation threads through its calls.
ResState == [users |-> users, put_queue |-> put_queue, req |-> req,
             queue |-> Tail(queue), hist |-> hist]

TriggerPut(rs, res, t) ==
  IF rs.put_queue[res] = <<>> THEN rs
  ELSE LET head == Head(rs.put_queue[res]) IN
       IF DoPut(Len(rs.users[res]), Capacity(res))
       THEN [rs EXCEPT !.users[res] = Append(@, head),
                       !.req[head] = [state |-> "triggered", usage_since |-> t],
                       !.queue = Schedule(@, t, NORMAL, EvReq("Request", head)),
                       !.put_queue[res] = Tail(@)]
       ELSE rs

\* self.shared_resources[res].request()
Request(rs, r, t) ==
  LET res == ResOf(r)
      rs1 == [rs EXCEPT
                !.put_queue[res] = PutQueueInsert(@, r),
                !.req[r].state = "queued",
                !.hist.issued[r] = t,
                !.hist.nissued = @ + 1,
                !.hist.seq[r] = rs.hist.nissued + 1,
                !.hist.held_at_issue[r] = Len(rs.users[res]),
                !.hist.queued_at_issue[r] = Len(rs.put_queue[res])]
      rs2 == TriggerPut(rs1, res, t)
  IN [rs2 EXCEPT !.hist.waited[r] = (rs2.req[r].state = "queued")]

\* request_store = [self.shared_resources[res].request() for res in self.resource_names]
RECURSIVE RequestAll(_, _, _, _, _)
RequestAll(rs, p, s, i, t) ==
  IF i > Len(process_list[s].resource_names) THEN rs
  ELSE RequestAll(Request(rs, <<p, s, i>>, t), p, s, i + 1, t)

\* self.shared_resources[res].release(request)
Release(rs, r, t) ==
  LET res == ResOf(r) IN
  [rs EXCEPT !.users[res] = Remove(@, r),
             !.queue = Schedule(@, t, NORMAL, EvReq("Release", r)),
             !.hist.released[r] = TRUE,
             !.hist.released_at[res] = t]

\* for res, request in zip(self.resource_names, request_store): the indices released
ReleaseList(s) == [i \in 1..Len(process_list[s].resource_names) |-> i]

RECURSIVE ReleaseAll(_, _, _, _, _)
ReleaseAll(rs, p, s, todo, t) ==
  IF todo = <<>> THEN rs
  ELSE ReleaseAll(Release(rs, <<p, s, Head(todo)>>, t), p, s, Tail(todo), t)

(***************************************************************************)
(* The random draws.                                                       *)
(***************************************************************************)
\* random.lognormvariate(...): any positive gap; after MaxPatients arrivals the
\* gap drawn carries the next arrival past the horizon
ArrivalGaps(n) == IF n < MaxPatients THEN 1..MaxGap ELSE {simulation_time}

\* np.random.uniform(self.time_min, self.time_max): [min, max);
\* low + (high - low) * u with u in [0, 1): (max, min] when min > max
ServiceTimes(s) ==
  LET low == process_list[s].time_range[1]
      high == process_list[s].time_range[2]
  IN IF low < high THEN low..(high - 1)
     ELSE IF low = high THEN {low}
     ELSE (high + 1)..low

(***************************************************************************)
(* env.step(): the head of the heap.                                       *)
(***************************************************************************)
Running == phase = "running" /\ queue # <<>>
HeadEv == Head(queue).ev
HeadTime == Head(queue).time
Pops(kind) == Running /\ HeadEv.kind = kind

\* self.env.run(until=self.simulation_time): the time of the stop event
UntilPlusOne == simulation_time + 1
Until == simulation_time

\* SimpySimulation.begin: the environment, the resources, the arrival process
\* (its Initialize event is urgent, at time 0) and env.run(until), which
\* schedules the stop event as urgent at the horizon.
\* simpy.Resource.__init__: `if capacity <= 0: raise ValueError`
CapacityAccepted(res) == Capacity(res) > 0

Begin ==
  /\ phase = "constructed"
  /\ \A res \in Resources : CapacityAccepted(res)
  /\ phase' = "running"
  /\ users' = [res \in Resources |-> <<>>]
  /\ put_queue' = [res \in Resources |-> <<>>]
  /\ queue' = Schedule(Schedule(<<>>, 0, URGENT, Ev("InitArrivals", 0, 0, 0)),
                       Until, URGENT, Ev("Until", 0, 0, 0))
  /\ UNCHANGED <<main_state, now, patient_id, req, race, stage, patient_log_data, hist>>

\* the stop event of env.run(until=...): StopSimulation ends the run
StepUntil ==
  /\ Pops("Until")
  /\ now' = HeadTime
  /\ queue' = Tail(queue)
  /\ phase' = "stopped"
  /\ UNCHANGED <<main_state, patient_id, users, put_queue, req, race, stage,
                 patient_log_data, hist>>

\* patient_arrivals starts: patient_id = 0, the first gap is drawn
StepInitArrivals ==
  /\ Pops("InitArrivals")
  /\ now' = HeadTime
  /\ patient_id' = 0
  /\ \E gap \in ArrivalGaps(0) :
       queue' = Schedule(Tail(queue), HeadTime + gap, NORMAL, Ev("Arrival", 0, 0, 0))
  /\ UNCHANGED <<main_state, phase, users, put_queue, req, race, stage, patient_log_data, hist>>

\* patient_arrivals resumes after its timeout: spawn the patient's process,
\* count it, draw the next gap
PatientIdKept(id) == id
\* patient_id += 1
NextPatientId(id) == id + 1

StepArrival ==
  /\ Pops("Arrival")
  /\ patient_id < MaxPatients
  /\ now' = HeadTime
  /\ patient_id' = NextPatientId(patient_id)
  /\ hist' = [hist EXCEPT !.spawns = Append(@, [id |-> patient_id, time |-> HeadTime])]
  /\ \E gap \in ArrivalGaps(patient_id + 1) :
       queue' = Schedule(Schedule(Tail(queue), HeadTime, URGENT,
                                  Ev("InitPatient", patient_id, 0, 0)),
                         HeadTime + gap, NORMAL, Ev("Arrival", 0, 0, 0))
  /\ UNCHANGED <<main_state, phase, users, put_queue, req, race, stage, patient_log_data>>

\* patient_process, lines 84-87: `for process in self.process_list` with a
\* yield on each stage's process.  The stages started when patient_process
\* runs after stage s has ended (s = 0: when it starts).
StagesStartedAll(s) ==
  IF s = 0 THEN [k \in 1..Len(process_list) |-> k] ELSE <<>>
StagesStarted(s) == IF s < Len(process_list) THEN <<s + 1>> ELSE <<>>

RECURSIVE StartStages(_, _, _, _)
StartStages(q, p, todo, t) ==
  IF todo = <<>> THEN q
  ELSE StartStages(Schedule(q, t, URGENT, Ev("InitRun", p, Head(todo), 0)),
                   p, Tail(todo), t)

\* what patient_process does when it runs after stage s: start the next stage
\* and wait for it, or end (its own process event is scheduled)
PatientAdvance(q, p, s, t) ==
  IF StagesStarted(s) = <<>>
  THEN Schedule(q, t, NORMAL, Ev("PatientEnd", p, 0, 0))
  ELSE StartStages(q, p, StagesStarted(s), t)

StagesAfterAdvance(p, s) ==
  [x \in StageIds |->
     IF x[1] = p /\ InSeq(StagesStarted(s), x[2])
     THEN [stage[x] EXCEPT !.pc = "init"]
     ELSE stage[x]]

\* patient_process starts
StepInitPatient ==
  /\ Pops("InitPatient")
  /\ LET p == HeadEv.p IN
       /\ now' = HeadTime
       /\ queue' = PatientAdvance(Tail(queue), p, 0, HeadTime)
       /\ stage' = StagesAfterAdvance(p, 0)
       /\ hist' = [hist EXCEPT !.arrival[p] = HeadTime]
  /\ UNCHANGED <<main_state, phase, patient_id, users, put_queue, req, race, patient_log_data>>

(***************************************************************************)
(* HospitalProcess.run, lines 45-49: the requests are issued in the order  *)
(* of resource_names, then one monitor process per request is started      *)
(* (Initialize events, urgent), then run() waits on all_of(monitors).      *)
(***************************************************************************)
RECURSIVE StartMonitors(_, _, _, _, _)
StartMonitors(q, p, s, i, t) ==
  IF i > Len(process_list[s].resource_names) THEN q
  ELSE StartMonitors(Schedule(q, t, URGENT, Ev("InitMonitor", p, s, i)),
                     p, s, i + 1, t)

\* self.shared_resources[res]: the lookup of a resource name of stage s
Known(s, i) == process_list[s].resource_names[i] \in DOMAIN resource_dict
AllKnown(s) == \A i \in 1..Len(process_list[s].resource_names) : Known(s, i)

StepInitRun ==
  /\ Pops("InitRun")
  /\ AllKnown(HeadEv.s)
  /\ LET p == HeadEv.p
         s == HeadEv.s
         t == HeadTime
         rs == RequestAll(ResState, p, s, 1, t)
     IN /\ now' = t
        /\ users' = rs.users
        /\ put_queue' = rs.put_queue
        /\ req' = rs.req
        /\ hist' = rs.hist
        /\ queue' = StartMonitors(rs.queue, p, s, 1, t)
        /\ stage' = [stage EXCEPT ![<<p, s>>] =
                       [@ EXCEPT !.pc = "join", !.all_of = "pending", !.count = 0,
                                 !.resource_wait_times = EmptyDict]]
  /\ UNCHANGED <<main_state, phase, patient_id, race, patient_log_data>>

(***************************************************************************)
(* request_resource_and_monitor_time, lines 58-59: start_time, the timeout *)
(* event, and the any-of condition over the request and the timeout.       *)
(* Condition.__init__ checks an event that is already processed at once    *)
(* and hooks _check on the others.                                         *)
(***************************************************************************)
RaceDeadlineLate(t) == t + TimeoutDelay + 1
\* self.env.timeout(10000), created at time t
RaceDeadline(t) == t + TimeoutDelay

StepInitMonitor ==
  /\ Pops("InitMonitor")
  /\ LET r == <<HeadEv.p, HeadEv.s, HeadEv.i>>
         t == HeadTime
         q1 == Schedule(Tail(queue), RaceDeadline(t), NORMAL, EvReq("RaceTimeout", r))
     IN /\ now' = t
        /\ IF req[r].state = "processed"
           THEN /\ race' = [race EXCEPT ![r] = [start_time |-> t, cond |-> "triggered"]]
                /\ queue' = Schedule(q1, t, NORMAL, EvReq("AnyOf", r))
           ELSE /\ race' = [race EXCEPT ![r] = [start_time |-> t, cond |-> "pending"]]
                /\ queue' = q1
  /\ UNCHANGED <<main_state, phase, patient_id, users, put_queue, req, stage,
                 patient_log_data, hist>>

\* Condition._check of the any-of condition: it triggers on the first event
\* it sees while still pending; once it is processed its _check hooks are gone
CondCheck(q, r, t) ==
  IF race[r].cond = "pending"
  THEN Schedule(q, t, NORMAL, EvReq("AnyOf", r))
  ELSE q

CondAfterCheck(r) ==
  [race EXCEPT ![r].cond = IF @ = "pending" THEN "triggered" ELSE @]

\* a granted Request event is popped: its callbacks are Resource._trigger_get
\* (the get queue is always empty: a Release succeeds when it is created) and
\* the condition's _check
StepRequest ==
  /\ Pops("Request")
  /\ LET r == <<HeadEv.p, HeadEv.s, HeadEv.i>> IN
       /\ now' = HeadTime
       /\ req' = [req EXCEPT ![r].state = "processed"]
       /\ queue' = CondCheck(Tail(queue), r, HeadTime)
       /\ race' = CondAfterCheck(r)
  /\ UNCHANGED <<main_state, phase, patient_id, users, put_queue, stage, patient_log_data, hist>>

\* the env.timeout(10000) of a monitor is popped
StepRaceTimeout ==
  /\ Pops("RaceTimeout")
  /\ LET r == <<HeadEv.p, HeadEv.s, HeadEv.i>> IN
       /\ now' = HeadTime
       /\ queue' = CondCheck(Tail(queue), r, HeadTime)
       /\ race' = CondAfterCheck(r)
  /\ UNCHANGED <<main_state, phase, patient_id, users, put_queue, req, stage,
                 patient_log_data, hist>>

\* line 61: self.env.now - start_time
WaitFromZero(t, start_time) == t
WaitTime(t, start_time) == t - start_time

(***************************************************************************)
(* The any-of condition is popped: _build_value collects the events that   *)
(* are processed by now, the monitor resumes (lines 60-63) and ends, which *)
(* schedules the monitor's own process event.                              *)
(***************************************************************************)
StepAnyOf ==
  /\ Pops("AnyOf")
  /\ LET r == <<HeadEv.p, HeadEv.s, HeadEv.i>>
         x == <<HeadEv.p, HeadEv.s>>
         t == HeadTime
         wait == IF req[r].state = "processed"
                 THEN WaitTime(t, race[r].start_time)
                 ELSE INF
     IN /\ now' = t
        /\ race' = [race EXCEPT ![r].cond = "processed"]
        /\ stage' = [stage EXCEPT ![x].resource_wait_times =
                       (ResOf(r) :> wait) @@ @]
        /\ hist' = [hist EXCEPT !.resolved_at[r] = t]
        /\ queue' = Schedule(Tail(queue), t, NORMAL, EvReq("MonitorEnd", r))
  /\ UNCHANGED <<main_state, phase, patient_id, users, put_queue, req, patient_log_data>>

\* self.env.all_of(parallel_requests): Condition.all_events
AnyEvents(nevents, count) == count >= 1
AllEvents(nevents, count) == nevents = count

\* a monitor's process event is popped: all_of._check counts it
StepMonitorEnd ==
  /\ Pops("MonitorEnd")
  /\ LET x == <<HeadEv.p, HeadEv.s>>
         t == HeadTime
         k == Len(process_list[HeadEv.s].resource_names)
         fires == /\ stage[x].all_of = "pending"
                  /\ AllEvents(k, stage[x].count + 1)
     IN /\ now' = t
        /\ stage' = [stage EXCEPT ![x] =
                       IF @.all_of = "pending"
                       THEN [@ EXCEPT !.count = @ + 1,
                                      !.all_of = IF fires THEN "triggered" ELSE @]
                       ELSE @]
        /\ queue' = IF fires
                    THEN Schedule(Tail(queue), t, NORMAL, Ev("AllOf", x[1], x[2], 0))
                    ELSE Tail(queue)
  /\ UNCHANGED <<main_state, phase, patient_id, users, put_queue, req, race,
                 patient_log_data, hist>>

\* all_of is popped: run() resumes, draws service_time and waits for it
\* (lines 50-52)
StepAllOf ==
  /\ Pops("AllOf")
  /\ LET x == <<HeadEv.p, HeadEv.s>>
         t == HeadTime
     IN /\ now' = t
        /\ \E d \in ServiceTimes(x[2]) :
             /\ stage' = [stage EXCEPT ![x] =
                            [@ EXCEPT !.all_of = "processed", !.pc = "service",
                                      !.service_time = d]]
             /\ queue' = Schedule(Tail(queue), t + d, NORMAL,
                                  Ev("ServiceTimeout", x[1], x[2], 0))
        /\ hist' = [hist EXCEPT !.service_start[x] = t]
  /\ UNCHANGED <<main_state, phase, patient_id, users, put_queue, req, race, patient_log_data>>

\* the service timeout is popped: run() resumes, releases every request of
\* request_store in order (lines 54-55) and ends
StepServiceTimeout ==
  /\ Pops("ServiceTimeout")
  /\ LET x == <<HeadEv.p, HeadEv.s>>
         t == HeadTime
         rs == ReleaseAll(ResState, x[1], x[2], ReleaseList(x[2]), t)
     IN /\ now' = t
        /\ users' = rs.users
        /\ put_queue' = rs.put_queue
        /\ req' = rs.req
        /\ hist' = [rs.hist EXCEPT !.service_end[x] = t]
        /\ queue' = Schedule(rs.queue, t, NORMAL, Ev("RunEnd", x[1], x[2], 0))
        /\ stage' = [stage EXCEPT ![x].pc = "done"]
  /\ UNCHANGED <<main_state, phase, patient_id, race, patient_log_data>>

\* a Release event is popped: its callback is Resource._trigger_put
StepRelease ==
  /\ Pops("Release")
  /\ LET r == <<HeadEv.p, HeadEv.s, HeadEv.i>>
         rs == TriggerPut(ResState, ResOf(r), HeadTime)
     IN /\ now' = HeadTime
        /\ users' = rs.users
        /\ put_queue' = rs.put_queue
        /\ req' = rs.req
        /\ hist' = rs.hist
        /\ queue' = rs.queue
  /\ UNCHANGED <<main_state, phase, patient_id, race, stage, patient_log_data>>

\* run()'s process event is popped: patient_process resumes and starts the next
\* stage of process_list, or ends after the last one (lines 84-87)
StepRunEnd ==
  /\ Pops("RunEnd")
  /\ now' = HeadTime
  /\ queue' = PatientAdvance(Tail(queue), HeadEv.p, HeadEv.s, HeadTime)
  /\ stage' = StagesAfterAdvance(HeadEv.p, HeadEv.s)
  /\ hist' = IF HeadEv.s = Len(process_list)
             THEN [hist EXCEPT !.completed[HeadEv.p] = HeadTime]
             ELSE hist
  /\ UNCHANGED <<main_state, phase, patient_id, users, put_queue, req, race,
                 patient_log_data>>

\* patient_process's own process event is popped: nothing waits for it
StepPatientEnd ==
  /\ Pops("PatientEnd")
  /\ now' = HeadTime
  /\ queue' = Tail(queue)
  /\ UNCHANGED <<main_state, phase, patient_id, users, put_queue, req, race, stage,
                 patient_log_data, hist>>

Next ==
  \/ Begin
  \/ StepUntil
  \/ StepInitArrivals
  \/ StepArrival
  \/ StepInitPatient
  \/ StepInitRun
  \/ StepInitMonitor
  \/ StepRequest
  \/ StepRaceTimeout
  \/ StepAnyOf
  \/ StepMonitorEnd
  \/ StepAllOf
  \/ StepServiceTimeout
  \/ StepRelease
  \/ StepRunEnd
  \/ StepPatientEnd

Spec == Init /\ [][Next]_vars

(***************************************************************************)
(* Configurations other than main.py's.  Nothing in SimpySimulation or     *)
(* HospitalProcess looks at the configuration before it is used:           *)
(*  - a capacity <= 0 makes simpy.Resource raise ValueError inside         *)
(*    setup_resource_environment, before the arrival process is created;   *)
(*  - a resource name that is not a key of resource_dict raises KeyError   *)
(*    at hospital_process.py:46 when a patient starts that stage: the      *)
(*    requests for the names before it in resource_names have been issued  *)
(*    by then.  run()'s process fails, the failure is thrown into          *)
(*    patient_process, which fails too, and nothing waits for              *)
(*    patient_process, so env.step raises and env.run ends with the error; *)
(*  - time_min > time_max is passed to np.random.uniform as it is.         *)
(***************************************************************************)
ZeroCapacity == [main_resource_dict EXCEPT !.Stretcher = 0]
NegativeCapacity == [main_resource_dict EXCEPT !.Doctor = 0 - 1]
AbsentResource ==
  [main_process_list EXCEPT ![2].resource_names = <<"Doctor", "Nurse">>]
InvertedRange == [main_process_list EXCEPT ![2].time_range = <<3, 1>>]

Configurations ==
  { [resource_dict |-> main_resource_dict, process_list |-> main_process_list],
    [resource_dict |-> ZeroCapacity, process_list |-> main_process_list],
    [resource_dict |-> NegativeCapacity, process_list |-> main_process_list],
    [resource_dict |-> main_resource_dict, process_list |-> AbsentResource],
    [resource_dict |-> main_resource_dict, process_list |-> InvertedRange] }

InitConfig ==
  /\ \E c \in Configurations : Construct(c.resource_dict, c.process_list)
  /\ opt_problem = None
  /\ optimised_sim = None

\* setup_resource_environment raises ValueError out of begin()
BeginValueError ==
  /\ phase = "constructed"
  /\ \E res \in Resources : ~CapacityAccepted(res)
  /\ phase' = "failed"
  /\ UNCHANGED <<main_state, now, queue, patient_id, users, put_queue, req, race,
                 stage, patient_log_data, hist>>

\* the requests of the list comprehension at line 46 up to index n
RECURSIVE RequestFirst(_, _, _, _, _, _)
RequestFirst(rs, p, s, i, n, t) ==
  IF i > n THEN rs
  ELSE RequestFirst(Request(rs, <<p, s, i>>, t), p, s, i + 1, n, t)

FirstUnknown(s) ==
  CHOOSE i \in 1..Len(process_list[s].resource_names) :
    /\ ~Known(s, i)
    /\ \A j \in 1..(i - 1) : Known(s, j)

\* run() starts and raises KeyError at line 46: its process fails
StepInitRunKeyError ==
  /\ Pops("InitRun")
  /\ ~AllKnown(HeadEv.s)
  /\ LET p == HeadEv.p
         s == HeadEv.s
         t == HeadTime
         rs == RequestFirst(ResState, p, s, 1, FirstUnknown(s) - 1, t)
     IN /\ now' = t
        /\ users' = rs.users
        /\ put_queue' = rs.put_queue
        /\ req' = rs.req
        /\ hist' = rs.hist
        /\ queue' = Schedule(rs.queue, t, NORMAL, Ev("RunFail", p, s, 0))
        /\ stage' = [stage EXCEPT ![<<p, s>>].pc = "failed"]
  /\ UNCHANGED <<main_state, phase, patient_id, race, patient_log_data>>

\* the failed process event of run() is popped: the exception is thrown into
\* patient_process at line 87, which does not catch it and fails
StepRunFail ==
  /\ Pops("RunFail")
  /\ now' = HeadTime
  /\ queue' = Schedule(Tail(queue), HeadTime, NORMAL, Ev("PatientFail", HeadEv.p, 0, 0))
  /\ UNCHANGED <<main_state, phase, patient_id, users, put_queue, req, race, stage,
                 patient_log_data, hist>>

\* the failed process event of patient_process is popped: it has no callback,
\* env.step re-raises the exception and env.run(), begin() end with it
StepPatientFail ==
  /\ Pops("PatientFail")
  /\ now' = HeadTime
  /\ queue' = Tail(queue)
  /\ phase' = "failed"
  /\ UNCHANGED <<main_state, patient_id, users, put_queue, req, race, stage,
                 patient_log_data, hist>>

NextConfig ==
  \/ Next
  \/ BeginValueError
  \/ StepInitRunKeyError
  \/ StepRunFail
  \/ StepPatientFail

SpecConfig == InitConfig /\ [][NextConfig]_vars

(***************************************************************************)
(* LinearOptimisationProblem and main.py:45-50.  One integer variable per  *)
(* resource key between its lower and its upper bound; the objective       *)
(* intercept + sum(coefficient * variable) is minimised subject to         *)
(* sum(cost * variable) <= max_cost.  Costs are main.py's, divided by 100. *)
(* problem.solve() is PuLP's: it returns a status and leaves a value on    *)
(* each variable; solve() reads the values and never the status.           *)
(***************************************************************************)
resource_keys == DOMAIN main_resource_dict
lower_bounds == [key \in resource_keys |-> 1]
upper_bounds == [key \in resource_keys |-> 3]
cost_dict == [Stretcher |-> 5, Doctor |-> 10, ParaStaff |-> 4]
\* max_cost=11000, divided by 100
max_cost_default == 110

RECURSIVE Sum(_, _)
Sum(f, keys) ==
  IF keys = {} THEN 0
  ELSE LET key == CHOOSE k \in keys : TRUE
       IN f[key] + Sum(f, keys \ {key})

Dot(a, x) == Sum([key \in resource_keys |-> a[key] * x[key]], resource_keys)

\* the values the variables can take: lowBound..upBound, cat='Integer'
Allocations == {x \in [resource_keys -> 0..3] :
                  \A key \in resource_keys :
                    lower_bounds[key] <= x[key] /\ x[key] <= upper_bounds[key]}

\* "Budget_Constraint"
WithinBudget(x, max_cost) == Dot(cost_dict, x) <= max_cost
\* "Total_LOS"
TotalLOS(x, intercept, coefficients) == intercept + Dot(coefficients, x)

FeasibleSet(op) == {x \in Allocations : WithinBudget(x, op.max_cost)}
Optimal(op) ==
  {x \in FeasibleSet(op) :
     \A y \in FeasibleSet(op) :
       TotalLOS(x, op.intercept, op.coefficients)
         <= TotalLOS(y, op.intercept, op.coefficients)}

\* the regression's intercept and coefficients, and the budgets tried: from
\* below the cost of the lower bounds up to BudgetSpan above it, and the default
BudgetSpan == 6
Intercepts == {0, 1}
Coefficients == [resource_keys -> {0 - 1, 1}]
Budgets ==
  ((Dot(cost_dict, lower_bounds) - 2)..(Dot(cost_dict, lower_bounds) + BudgetSpan))
    \cup {max_cost_default}

\* LinearOptimisationProblem.__init__
OptConstruct(intercept, coefficients, max_cost) ==
  opt_problem = [pc |-> "constructed",
                 intercept |-> intercept,
                 coefficients |-> coefficients,
                 max_cost |-> max_cost,
                 status |-> "Not Solved",
                 optimal_resources |-> None]

InitOptimise ==
  /\ Construct(main_resource_dict, main_process_list)
  /\ \E i \in Intercepts, c \in Coefficients, m \in Budgets : OptConstruct(i, c, m)
  /\ optimised_sim = None

sim_state == <<resource_dict, process_list, phase, now, queue, patient_id, users,
               put_queue, req, race, stage, patient_log_data, hist>>

\* initialise_problem: the objective and the budget constraint are added
OptInitialise ==
  /\ opt_problem # None
  /\ opt_problem.pc = "constructed"
  /\ opt_problem' = [opt_problem EXCEPT !.pc = "initialised"]
  /\ UNCHANGED <<sim_state, optimised_sim>>

\* what problem.solve() leaves behind: its status, and a value on every
\* variable.  For an infeasible problem the values are whatever the solver
\* wrote out, inside the bounds or not
SolverStatus(op) == IF FeasibleSet(op) = {} THEN "Infeasible" ELSE "Optimal"
SolverValues(op) ==
  IF FeasibleSet(op) = {} THEN [resource_keys -> 0..3] ELSE Optimal(op)

\* solve(): optimal_resources is built from the values, whatever the status
OptSolve ==
  /\ opt_problem # None
  /\ opt_problem.pc = "initialised"
  /\ \E x \in SolverValues(opt_problem) :
       opt_problem' = [opt_problem EXCEPT !.pc = "solved",
                                          !.status = SolverStatus(opt_problem),
                                          !.optimal_resources = x]
  /\ UNCHANGED <<sim_state, optimised_sim>>

\* solve() on an infeasible problem with a solver that leaves the variables
\* without a value: int(None) raises TypeError and nothing is stored
OptSolveTypeError ==
  /\ opt_problem # None
  /\ opt_problem.pc = "initialised"
  /\ FeasibleSet(opt_problem) = {}
  /\ opt_problem' = [opt_problem EXCEPT !.pc = "failed",
                                        !.status = SolverStatus(opt_problem)]
  /\ UNCHANGED <<sim_state, optimised_sim>>

\* the resource_dict main() hands to the second simulation (line 50)
SecondRunResources(op) == op.optimal_resources

\* main.py:50: SimpySimulation(opt_problem.optimal_resources, ...)
MainOptimisedSim ==
  /\ opt_problem # None
  /\ opt_problem.pc = "solved"
  /\ optimised_sim = None
  /\ optimised_sim' = SecondRunResources(opt_problem)
  /\ UNCHANGED <<sim_state, opt_problem>>

NextOptimise ==
  \/ OptInitialise
  \/ OptSolve
  \/ OptSolveTypeError
  \/ MainOptimisedSim

SpecOptimise == InitOptimise /\ [][NextOptimise]_vars


(***************************************************************************)
(* Vocabulary of the properties.                                           *)
(***************************************************************************)
Issued(r) == hist.issued[r] # NoTime
Resolved(r) == hist.resolved_at[r] # NoTime
Holds(r) == InSeq(users[ResOf(r)], r)
Waits(r) == stage[<<r[1], r[2]>>].resource_wait_times

\* the outcome of a request's race, read off the stage's resource_wait_times
Outcome(r) ==
  IF ResOf(r) \notin DOMAIN Waits(r) THEN "Pending"
  ELSE IF Waits(r)[ResOf(r)] = INF THEN "TimedOut"
  ELSE "Granted"

ReqsOf(x) == {<<x[1], x[2], i>> : i \in 1..Len(process_list[x[2]].resource_names)}
Active(x) == stage[x].pc \in {"init", "join", "service"}

(***************************************************************************)
(* C1: in every reachable state the number of units held in each pool is   *)
(* at least 0 and at most the pool's configured capacity.                  *)
(***************************************************************************)
C1_HeldWithinCapacity ==
  \A res \in Resources :
    /\ 0 <= Len(users[res])
    /\ Len(users[res]) <= resource_dict[res]

\* a saturated pool with a request waiting behind it, after a release on it
C1_Witness ==
  \E res \in Resources :
    /\ Len(users[res]) = resource_dict[res]
    /\ put_queue[res] # <<>>
    /\ hist.released_at[res] # NoTime

(***************************************************************************)
(* C2: once a request's wait is recorded as timed out, no step at a later   *)
(* virtual time makes that request a holder of a unit of its pool.         *)
(***************************************************************************)
C2_TimedOutNeverGranted ==
  [][\A r \in ReqIds :
       (Outcome(r) = "TimedOut" /\ ~Holds(r) /\ now' > hist.resolved_at[r])
         => ~InSeq(users'[ResOf(r)], r)]_vars

(***************************************************************************)
(* C3: every request in a pool's wait queue has outcome Pending.           *)
(***************************************************************************)
C3_QueuedArePending ==
  \A res \in Resources :
    \A k \in 1..Len(put_queue[res]) : Outcome(put_queue[res][k]) = "Pending"

(***************************************************************************)
(* C4: when a stage's service period has ended, release has been issued    *)
(* for exactly the requests whose outcome was Granted, and a request that  *)
(* timed out is not held.                                                  *)
(***************************************************************************)
C4_ReleaseExactlyGranted ==
  \A r \in ReqIds :
    /\ hist.released[r] => Outcome(r) = "Granted"
    /\ (stage[<<r[1], r[2]>>].pc = "done" /\ Outcome(r) = "Granted") => hist.released[r]
    /\ Outcome(r) = "TimedOut" => ~Holds(r)


(***************************************************************************)
(* C5: FIFO fairness.  For two requests A and B on the same pool that both *)
(* had to wait, A issued before B: when B's outcome is resolved, A's is    *)
(* resolved too, at a time no later than B's.                              *)
(***************************************************************************)
C5_FifoFairness ==
  \A b \in ReqIds :
    (hist.waited[b] /\ Resolved(b)) =>
      \A a \in ReqIds :
        ( /\ hist.waited[a]
          /\ ResOf(a) = ResOf(b)
          /\ hist.seq[a] < hist.seq[b] )
        => /\ Resolved(a)
           /\ hist.resolved_at[a] <= hist.resolved_at[b]

\* two requests queued together on one pool, resolved at different times
C5_Witness ==
  \E a, b \in ReqIds :
    /\ ResOf(a) = ResOf(b)
    /\ hist.waited[a] /\ hist.waited[b]
    /\ hist.seq[a] < hist.seq[b]
    /\ hist.issued[b] < hist.resolved_at[a]
    /\ Resolved(a) /\ Resolved(b)
    /\ hist.resolved_at[a] < hist.resolved_at[b]
    /\ Outcome(a) = "Granted" /\ Outcome(b) = "Granted"

(***************************************************************************)
(* C6: AND-join.  A stage's service period has started only if every one   *)
(* of its requests has reached a terminal outcome.                         *)
(***************************************************************************)
C6_AndJoin ==
  \A x \in StageIds :
    stage[x].pc \in {"service", "done"}
      => \A r \in ReqsOf(x) : Outcome(r) # "Pending" /\ Resolved(r)

\* a two-resource stage in service whose two races were resolved at different times
C6_Witness ==
  \E x \in StageIds :
    /\ stage[x].pc = "service"
    /\ \E r1, r2 \in ReqsOf(x) :
         /\ Resolved(r1) /\ Resolved(r2)
         /\ hist.resolved_at[r1] < hist.resolved_at[r2]
         /\ hist.service_start[x] = hist.resolved_at[r2]

(***************************************************************************)
(* C7: a request of stage i+1 is issued only after stage i's service       *)
(* period has ended and every release of stage i has been issued; a        *)
(* patient is inside at most one stage at a time.                          *)
(***************************************************************************)
C7_StagesSequential ==
  \A p \in Patients :
    /\ \A s \in Stages :
         (s + 1 \in Stages /\ stage[<<p, s + 1>>].pc # "none")
           => /\ stage[<<p, s>>].pc = "done"
              /\ hist.service_end[<<p, s>>] # NoTime
              /\ \A r \in ReqsOf(<<p, s>>) : hist.released[r]
              /\ \A r \in ReqsOf(<<p, s + 1>>) :
                   Issued(r) => hist.issued[r] >= hist.service_end[<<p, s>>]
    /\ Cardinality({s \in Stages : Active(<<p, s>>)}) <= 1

\* a patient whose second stage has issued its requests
C7_Witness ==
  \E p \in Patients :
    /\ stage[<<p, 2>>].pc = "join"
    /\ \A r \in ReqsOf(<<p, 2>>) : Issued(r)
    /\ stage[<<p, 1>>].pc = "done"
    /\ \A r \in ReqsOf(<<p, 1>>) : hist.released[r]


(***************************************************************************)
(* C8.  The outcome a request has when it is granted in the very call that *)
(* issues it: granted at its issue time, recorded wait 0, resolved at the  *)
(* issue time, never timed out; and a stage all of whose requests were     *)
(* granted this way serves from its issue time for service_time.           *)
(***************************************************************************)
GrantedAtIssue(r) ==
  /\ ~hist.waited[r]
  /\ req[r].usage_since = hist.issued[r]
  /\ now > hist.issued[r] => Resolved(r)
  /\ Resolved(r) => /\ Outcome(r) = "Granted"
                    /\ Waits(r)[ResOf(r)] = 0
                    /\ hist.resolved_at[r] = hist.issued[r]

FreeAtIssue(r) == Issued(r) /\ hist.held_at_issue[r] < resource_dict[ResOf(r)]

\* C8 as claimed: a free unit at the moment a request is issued makes the
\* request Granted at that same time, with wait 0.
C8_FreeUnitGrantsAtOnce ==
  \A r \in ReqIds : FreeAtIssue(r) => GrantedAtIssue(r)

\* C8 as amended: a free unit and an empty wait queue at the moment a request
\* is issued make the request Granted at that same time, with wait 0; the
\* stage then serves from that time and completes service_time later.
C8_FreeUnitEmptyQueueGrantsAtOnce ==
  /\ \A r \in ReqIds :
       (FreeAtIssue(r) /\ hist.queued_at_issue[r] = 0) => GrantedAtIssue(r)
  /\ \A x \in StageIds :
       ( /\ stage[x].pc = "done"
         /\ \A r \in ReqsOf(x) : FreeAtIssue(r) /\ hist.queued_at_issue[r] = 0 )
       => \A r \in ReqsOf(x) :
            /\ hist.service_start[x] = hist.issued[r]
            /\ hist.service_end[x] = hist.issued[r] + stage[x].service_time

\* a request issued at a time after 0 to an idle pool, granted with wait 0, its
\* stage completed
C8_Witness ==
  \E r \in ReqIds :
    /\ FreeAtIssue(r) /\ hist.queued_at_issue[r] = 0
    /\ hist.issued[r] > 0
    /\ Outcome(r) = "Granted" /\ Waits(r)[ResOf(r)] = 0
    /\ stage[<<r[1], r[2]>>].pc = "done"
    /\ hist.service_end[<<r[1], r[2]>>] = hist.issued[r] + stage[<<r[1], r[2]>>].service_time

(***************************************************************************)
(* C9: a request that waited in the queue and was granted by a release is  *)
(* granted at the time of that release, and the wait recorded for it is    *)
(* the grant time minus the time it was enqueued.                          *)
(***************************************************************************)
C9_HeadGrantedAtRelease ==
  \A r \in ReqIds :
    (hist.waited[r] /\ req[r].usage_since # NoTime)
      => /\ req[r].usage_since = hist.released_at[ResOf(r)]
            \/ req[r].usage_since < hist.released_at[ResOf(r)]
         /\ now > req[r].usage_since
              => /\ Outcome(r) = "Granted"
                 /\ Waits(r)[ResOf(r)] = req[r].usage_since - hist.issued[r]

(***************************************************************************)
(* C10: a request recorded as timed out was resolved exactly TimeoutDelay  *)
(* after it was issued, and from then on its patient goes through the      *)
(* stage's service period and the following stages without holding it.     *)
(***************************************************************************)
C10_TimedOutProceedsWithout ==
  \A r \in ReqIds :
    Outcome(r) = "TimedOut"
      => /\ hist.resolved_at[r] = hist.issued[r] + TimeoutDelay
         /\ now > hist.resolved_at[r] => stage[<<r[1], r[2]>>].pc \in {"join", "service", "done"}
         /\ now > hist.resolved_at[r] => ~Holds(r)

\* the part of C10 the code does satisfy, kept for reference
TimedOutAtThreshold ==
  \A r \in ReqIds :
    Outcome(r) = "TimedOut" => hist.resolved_at[r] = hist.issued[r] + TimeoutDelay


(***************************************************************************)
(* C11.  What a run to the horizon dispatches.                             *)
(***************************************************************************)
QueueTimes == {queue[k].time : k \in 1..Len(queue)}

\* C11 as claimed: when the run has stopped, every event with a fire time at
\* or before the horizon has been dispatched (none is left in the heap), and
\* no event dispatched had a fire time after the horizon.
C11_DispatchesThroughHorizon ==
  /\ now <= simulation_time
  /\ phase = "stopped" => \A t \in QueueTimes : t > simulation_time

\* C11 as amended: the run dispatches every event with a fire time strictly
\* before the horizon and no event of the program with a fire time at or
\* after it; the patients in flight stay where they are.
C11_DispatchesBeforeHorizon ==
  /\ phase = "running" => now < simulation_time
  /\ phase = "stopped" =>
       /\ now = simulation_time
       /\ \A t \in QueueTimes : t >= simulation_time
       /\ \A x \in StageIds :
            hist.service_end[x] # NoTime => hist.service_end[x] < simulation_time

\* the run has stopped with an event due exactly at the horizon still in the
\* heap and a patient inside a stage
C11_Witness ==
  /\ phase = "stopped"
  /\ simulation_time \in QueueTimes
  /\ \E x \in StageIds : Active(x)


(***************************************************************************)
(* C12.  Order of dispatch among events due at the same time.              *)
(***************************************************************************)
\* the events that stay in the heap over a step, and the ones the step adds
Pending(e) == queue # <<>> /\ InSeq(Tail(queue), e)
PosAfter(e) == CHOOSE k \in 1..Len(queue') : queue'[k] = e

\* the heap pops in (time, priority) order: urgent before normal at one time
\* (the order is transitive, so neighbours are enough)
HeapOrdered(q) ==
  \A i \in 1..(Len(q) - 1) :
    \/ q[i].time < q[i + 1].time
    \/ q[i].time = q[i + 1].time /\ (q[i].prio = URGENT \/ q[i + 1].prio = NORMAL)

\* C12 as claimed: of two events with the same fire time the one scheduled
\* first is dispatched first, whatever their kind: an event scheduled by a
\* step goes behind every event of the same time already in the heap.
C12_SameTimeFifo ==
  [][phase = "running" =>
       \A k \in 1..Len(queue') :
         ~Pending(queue'[k]) =>
           \A e \in {queue'[j] : j \in 1..Len(queue')} :
             (Pending(e) /\ e.time = queue'[k].time) => PosAfter(e) < k]_vars

\* C12 as amended: dispatch order is (fire time, priority, insertion order);
\* process starts are urgent, everything else is normal; of two events with
\* the same fire time and the same priority the one scheduled first is
\* dispatched first, and the events already in the heap keep their order.
C12_SameTimeSamePriorityFifo ==
  [][(phase = "running" /\ queue # <<>>) =>
       LET n == Len(queue')
           old == [k \in 1..n |-> InSeq(Tail(queue), queue'[k])]
       IN /\ now' = Head(queue).time
          /\ HeapOrdered(queue')
          /\ \A k \in 1..n :
               queue'[k].prio = URGENT
                 <=> queue'[k].ev.kind \in {"InitArrivals", "InitPatient", "InitRun",
                                           "InitMonitor", "Until"}
          \* within one (time, priority) the events scheduled by the step come
          \* behind the ones that were there
          /\ \A k \in 1..(n - 1) :
               (/\ ~old[k]
                /\ queue'[k].time = queue'[k + 1].time
                /\ queue'[k].prio = queue'[k + 1].prio) => ~old[k + 1]
          \* and the ones that were there keep their order
          /\ SelectSeq(queue', LAMBDA e : InSeq(Tail(queue), e)) = Tail(queue)]_vars

\* two normal events due at the same time wait in the heap behind a process
\* start of that time which was scheduled after the first of them
C12_Witness ==
  /\ Len(queue) >= 3
  /\ queue[1].prio = URGENT /\ queue[1].ev.kind = "InitPatient"
  /\ queue[2].prio = NORMAL /\ queue[3].prio = NORMAL
  /\ queue[1].time = queue[2].time /\ queue[2].time = queue[3].time
  /\ queue[2].ev.kind = "Release"


(***************************************************************************)
(* C14.  The patient records.  patient_log_data is read by data_collation  *)
(* with the columns patient_id, arrival_time, Total Time in ED.            *)
(***************************************************************************)
Completed(p) == hist.completed[p] # NoTime
RecordsOf(p) == {k \in 1..Len(patient_log_data) : patient_log_data[k].patient_id = p}

\* C14: every patient whose last stage has completed has exactly one record,
\* with its id, its arrival time and completion time minus arrival time, and
\* the records are in completion order.
C14_CompletedRecordedOnce ==
  /\ \A p \in Patients :
       Completed(p) =>
         /\ Cardinality(RecordsOf(p)) = 1
         /\ \A k \in RecordsOf(p) :
              /\ patient_log_data[k].arrival_time = hist.arrival[p]
              /\ patient_log_data[k].total_time = hist.completed[p] - hist.arrival[p]
  /\ \A j, k \in 1..Len(patient_log_data) :
       j < k => hist.completed[patient_log_data[j].patient_id]
                  <= hist.completed[patient_log_data[k].patient_id]


(***************************************************************************)
(* C16.  Invalid configurations.                                           *)
(***************************************************************************)
Invalid ==
  \/ \E s \in Stages : ~AllKnown(s)
  \/ \E res \in Resources : resource_dict[res] <= 0
  \/ \E s \in Stages : process_list[s].time_range[1] > process_list[s].time_range[2]

\* env.run has popped no event: the heap, if there is one, still starts with the
\* arrival loop's Initialize event
NothingDispatched ==
  /\ now = 0
  /\ phase # "stopped"
  /\ phase = "running" => (queue # <<>> /\ HeadEv.kind = "InitArrivals")
  /\ patient_id = 0
  /\ \A p \in Patients : hist.arrival[p] = NoTime
  /\ \A x \in StageIds : stage[x].pc = "none"
  /\ hist.nissued = 0

\* C16: with an invalid configuration no event is ever dispatched, no patient
\* arrives and no stage is entered: the configuration is rejected before the
\* simulation starts.
C16_InvalidRejectedBeforeStart ==
  Invalid => NothingDispatched


(***************************************************************************)
(* C17.  An infeasible optimisation problem.                               *)
(***************************************************************************)
Infeasible == opt_problem # None /\ FeasibleSet(opt_problem) = {}

\* C17: when the budget cannot pay for every resource at its lower bound, no
\* allocation is stored by solve() and none is passed on to a second
\* simulation run.
C17_InfeasibleStoresNothing ==
  Infeasible => /\ opt_problem.optimal_resources = None
                /\ optimised_sim = None


(***************************************************************************)
(* C18.  The ids and arrival times given by the arrival loop.              *)
(***************************************************************************)
Spawns == hist.spawns

\* C18: the n-th patient spawned (n = 0, 1, 2, ...) has the id n, so the ids
\* are distinct and go up by one; a patient's arrival time is the time at
\* which it was spawned, and arrival times do not decrease with the id.
C18_IdsCountArrivals ==
  /\ patient_id = Len(Spawns)
  /\ \A k \in 1..Len(Spawns) : Spawns[k].id = k - 1
  /\ \A j, k \in 1..Len(Spawns) : j < k => Spawns[j].time <= Spawns[k].time
  /\ \A p \in Patients :
       hist.arrival[p] # NoTime =>
         \E k \in 1..Len(Spawns) : Spawns[k].id = p /\ Spawns[k].time = hist.arrival[p]

\* three patients have been spawned and have arrived
C18_Witness ==
  /\ Len(Spawns) = 3
  /\ \A p \in 0..2 : hist.arrival[p] # NoTime
  /\ hist.arrival[0] < hist.arrival[2]


(***************************************************************************)
(* C19.  No unit is leaked.                                                *)
(***************************************************************************)
HeldRequests == {r \in ReqIds : Holds(r)}

\* C19: every unit held in a pool belongs to a request of a patient that is
\* inside the stage that issued it and has not performed that stage's
\* release; so when no patient is inside any stage, nothing is held.
C19_NoUnitLeaked ==
  /\ \A r \in HeldRequests : Active(<<r[1], r[2]>>) /\ ~hist.released[r]
  /\ (\A x \in StageIds : ~Active(x)) => \A res \in Resources : users[res] = <<>>


(***************************************************************************)
(* C20.  Bounded response of the race.                                     *)
(***************************************************************************)
IssuedAt(x) == hist.issued[<<x[1], x[2], 1>>]

\* C20: a request is resolved (granted or timed out) no later than the
\* threshold after it was issued: a resolution never comes later than that,
\* and the clock never passes issue time + threshold with the request still
\* unresolved.  The same holds for the start of a stage's service period,
\* counted from the time the stage issued its requests, so no stage waits
\* for resources beyond the threshold.
C20_ResolvedWithinThreshold ==
  /\ \A r \in ReqIds :
       Issued(r) =>
         /\ Resolved(r) => hist.resolved_at[r] <= hist.issued[r] + TimeoutDelay
         /\ now > hist.issued[r] + TimeoutDelay => Resolved(r)
  /\ \A x \in StageIds :
       IssuedAt(x) # NoTime =>
         /\ hist.service_start[x] # NoTime
              => hist.service_start[x] <= IssuedAt(x) + TimeoutDelay
         /\ now > IssuedAt(x) + TimeoutDelay => hist.service_start[x] # NoTime

\* a request has timed out and its stage started serving exactly at the
\* threshold, while some patient holds one granted resource of the
\* two-resource stage with the other request still pending
C20_Witness ==
  /\ \E r \in ReqIds :
       /\ Issued(r) /\ Outcome(r) = "TimedOut"
       /\ hist.service_start[<<r[1], r[2]>>] = hist.issued[r] + TimeoutDelay
  /\ \E p \in Patients :
       /\ Holds(<<p, 2, 2>>) /\ Outcome(<<p, 2, 2>>) = "Granted"
       /\ Issued(<<p, 2, 1>>) /\ Outcome(<<p, 2, 1>>) = "Pending"

====
